---------------------------- MODULE Spec2Model ----------------------------
(***************************************************************************)
(* A model of the integra package (eISCP client for Integra/Onkyo A/V      *)
(* receivers): the frame codec of message.go and the device session of     *)
(* integra.go (mainLoop, receiveLoop, Client).                             *)
(*                                                                         *)
(* A packet is a function from the byte offsets 0..31 to bytes 0..255, so  *)
(* that offsets read as they do in the source.  A string is a sequence of  *)
(* bytes.                                                                  *)
(***************************************************************************)
EXTENDS Integers, Sequences, FiniteSets, TLC

(***************************************************************************)
(* message.go: constants                                                   *)
(***************************************************************************)
headerSize == 16
maxDataSize == 16
packetSize == headerSize + maxDataSize
headerSizeIndex == 7
endOfPacketSize == 1
dataStartSize == 2
dataOverhead == dataStartSize + endOfPacketSize
dataSizeIndex == 11
maxMessageSize == maxDataSize - dataOverhead
messageOffset == headerSize + dataStartSize
endOfPacketTx == 10
endOfPacketRx == 26

\* Go's byte arithmetic: uint8, wrapping.
ByteWidth == 256
Byte == 0 .. (ByteWidth - 1)
ToByte(n) == n % ByteWidth
Offsets == 0 .. (packetSize - 1)

\* newEISCPPacket: the literal of message.go:45-55.
newEISCPPacket ==
    [i \in Offsets |->
        CASE i = 0 -> 73
          [] i = 1 -> 83
          [] i = 2 -> 67
          [] i = 3 -> 80
          [] i = 7 -> 16
          [] i = 12 -> 1
          [] i = 16 -> 33
          [] i = 17 -> 49
          [] OTHER -> 0]

\* make(eISCPPacket, packetSize): 32 zero bytes (integra.go:72).
zeroPacket == [i \in Offsets |-> 0]

\* Message.String: Command + Parameter.
String(m) == m.Command \o m.Parameter

\* eISCPPacket.init.  The outcome is the error flag and the packet as the
\* call leaves it (the packet is written in place).
initOffByOne(p, message) ==
    IF Len(message) > maxMessageSize
    THEN [err |-> TRUE, p |-> p]
    ELSE [err |-> FALSE,
          p |-> [i \in Offsets |->
                    IF i = dataSizeIndex
                    THEN ToByte(Len(message) + dataStartSize)
                    ELSE IF i >= messageOffset /\ i < messageOffset + Len(message)
                    THEN message[i - messageOffset + 1]
                    ELSE IF i = messageOffset + Len(message)
                    THEN endOfPacketTx
                    ELSE IF i > messageOffset + Len(message)
                    THEN 0
                    ELSE p[i]]]

initLimit14(p, message) ==
    IF Len(message) > maxMessageSize + 1
    THEN [err |-> TRUE, p |-> p]
    ELSE [err |-> FALSE,
          p |-> [i \in Offsets |->
                    IF i = dataSizeIndex
                    THEN ToByte(Len(message) + dataOverhead)
                    ELSE IF i >= messageOffset /\ i < messageOffset + Len(message)
                    THEN message[i - messageOffset + 1]
                    ELSE IF i = messageOffset + Len(message)
                    THEN endOfPacketTx
                    ELSE IF i > messageOffset + Len(message)
                    THEN 0
                    ELSE p[i]]]

initNoPad(p, message) ==
    IF Len(message) > maxMessageSize
    THEN [err |-> TRUE, p |-> p]
    ELSE [err |-> FALSE,
          p |-> [i \in Offsets |->
                    IF i = dataSizeIndex
                    THEN ToByte(Len(message) + dataOverhead)
                    ELSE IF i >= messageOffset /\ i < messageOffset + Len(message)
                    THEN message[i - messageOffset + 1]
                    ELSE IF i = messageOffset + Len(message)
                    THEN endOfPacketTx
                    ELSE p[i]]]

init(p, message) ==
    IF Len(message) > maxMessageSize
    THEN [err |-> TRUE, p |-> p]
    ELSE [err |-> FALSE,
          p |-> [i \in Offsets |->
                    IF i = dataSizeIndex
                    THEN ToByte(Len(message) + dataOverhead)
                    ELSE IF i >= messageOffset /\ i < messageOffset + Len(message)
                    THEN message[i - messageOffset + 1]
                    ELSE IF i = messageOffset + Len(message)
                    THEN endOfPacketTx
                    ELSE IF i > messageOffset + Len(message)
                    THEN 0
                    ELSE p[i]]]

\* newMessage(m): m is the slice p[lo:hi] of a packet of capacity packetSize.
\* m[:3] may reach past len(m) up to cap(m); m[3:] faults when len(m) < 3.
newMessage(p, lo, hi) ==
    IF 3 > packetSize - lo \/ 3 > hi - lo
    THEN [panic |-> TRUE, Command |-> <<>>, Parameter |-> <<>>]
    ELSE [panic |-> FALSE,
          Command |-> [k \in 1 .. 3 |-> p[lo + k - 1]],
          Parameter |-> [k \in 1 .. (hi - lo - 3) |-> p[lo + 3 + k - 1]]]

\* eISCPPacket.message: the slice bounds are computed in byte arithmetic; a
\* slice with hi < lo or hi > cap faults.
message(p) ==
    LET messageSize == ToByte(p[dataSizeIndex] - dataOverhead)
        hi == ToByte(messageOffset + messageSize)
    IN  IF hi < messageOffset \/ hi > packetSize
        THEN [panic |-> TRUE, Command |-> <<>>, Parameter |-> <<>>]
        ELSE newMessage(p, messageOffset, hi)

\* eISCPPacket.check: the switch of message.go:87-101.  Go tries the cases in
\* order and takes the first that is true, so the terminator offset is only
\* computed when the data size is at most maxDataSize.
checkNoHeaderSize(p, endOfPacket) ==
    IF p[0] # 73 \/ p[1] # 83 \/ p[2] # 67 \/ p[3] # 80 THEN "magic"
    ELSE IF p[headerSize] # 33 \/ p[headerSize + 1] # 49 THEN "start"
    ELSE IF p[dataSizeIndex] > maxDataSize THEN "dataSize"
    ELSE IF p[ToByte(headerSize + p[dataSizeIndex] - 1)] # endOfPacket THEN "endOfPacket"
    ELSE "ok"

checkAnyTerminator(p, endOfPacket) ==
    IF p[0] # 73 \/ p[1] # 83 \/ p[2] # 67 \/ p[3] # 80 THEN "magic"
    ELSE IF p[headerSize] # 33 \/ p[headerSize + 1] # 49 THEN "start"
    ELSE IF p[headerSizeIndex] # headerSize THEN "headerSize"
    ELSE IF p[dataSizeIndex] > maxDataSize THEN "dataSize"
    ELSE IF p[ToByte(headerSize + p[dataSizeIndex] - 1)] \notin {endOfPacketTx, endOfPacketRx}
    THEN "endOfPacket"
    ELSE "ok"

checkStartBeforeMagic(p, endOfPacket) ==
    IF p[headerSize] # 33 \/ p[headerSize + 1] # 49 THEN "start"
    ELSE IF p[0] # 73 \/ p[1] # 83 \/ p[2] # 67 \/ p[3] # 80 THEN "magic"
    ELSE IF p[headerSizeIndex] # headerSize THEN "headerSize"
    ELSE IF p[dataSizeIndex] > maxDataSize THEN "dataSize"
    ELSE IF p[ToByte(headerSize + p[dataSizeIndex] - 1)] # endOfPacket THEN "endOfPacket"
    ELSE "ok"

check(p, endOfPacket) ==
    IF p[0] # 73 \/ p[1] # 83 \/ p[2] # 67 \/ p[3] # 80 THEN "magic"
    ELSE IF p[headerSize] # 33 \/ p[headerSize + 1] # 49 THEN "start"
    ELSE IF p[headerSizeIndex] # headerSize THEN "headerSize"
    ELSE IF p[dataSizeIndex] > maxDataSize THEN "dataSize"
    ELSE IF p[ToByte(headerSize + p[dataSizeIndex] - 1)] # endOfPacket THEN "endOfPacket"
    ELSE "ok"

(***************************************************************************)
(* Inputs.  Bytes are written as their ASCII codes.                        *)
(***************************************************************************)
PWR == <<80, 87, 82>>
MVL == <<77, 86, 76>>
QSTN == <<81, 83, 84, 78>>

\* The longest parameter tried; with a 3-byte command it passes the limit
\* of maxMessageSize bytes.
MaxParamLen == 11
\* Bytes of a frame under test that may be overwritten in a row.
MaxCorrupt == 2

\* "0123456789012...": a parameter of n bytes, no two neighbours alike.
PatternParam(n) == [k \in 1 .. n |-> 48 + ((k - 1) % 10)]

CodecCommands == {PWR, <<>>}
CodecParameters == {PatternParam(n) : n \in 0 .. MaxParamLen} \cup {QSTN}
CodecMessages == [Command : CodecCommands, Parameter : CodecParameters]

\* The expected terminators a frame is validated with.
Terminators == {endOfPacketTx, endOfPacketRx}
\* The offsets and values the frame under test is overwritten with: the
\* magic, the header size, the data size, the start marker, and the offset
\* the data size points the terminator to.
CorruptOffsets(p) ==
    {0, 1, 2, 3, headerSizeIndex, dataSizeIndex, headerSize, headerSize + 1}
        \cup (IF p[dataSizeIndex] <= maxDataSize
              THEN {ToByte(headerSize + p[dataSizeIndex] - 1)}
              ELSE {})
CorruptValues == {0, endOfPacketTx, endOfPacketRx, 255}

NoMessage == [Command |-> <<>>, Parameter |-> <<>>]

VARIABLES
    \* the codec on its own: a reused transmit buffer, and the frame it puts
    \* on the wire, which is echoed by the device, overwritten and validated
    ctx,        \* the transmit buffer init writes into
    cpkt,       \* the frame under test
    cprx,       \* what the receive path made of the frame before the last step
    cmsg,       \* the Message last given to init
    cerr,       \* whether that init returned an error
    cop,        \* the last operation on the frame
    cidx,       \* the offset the last Corrupt wrote
    ncorrupt,   \* Corrupt steps since the last Encode
    crx         \* what the receive path makes of cpkt, per expected terminator

codecVars == <<ctx, cpkt, cprx, cmsg, cerr, cop, cidx, ncorrupt, crx>>

\* check, and message when check passes (integra.go:165-169).
receive(p, endOfPacket) ==
    LET c == check(p, endOfPacket)
        m == message(p)
    IN  IF c # "ok"
        THEN [chk |-> c, msg |-> NoMessage, panic |-> FALSE]
        ELSE [chk |-> c,
              msg |-> [Command |-> m.Command, Parameter |-> m.Parameter],
              panic |-> m.panic]

Validate(p) == [e \in Terminators |-> receive(p, e)]

CodecInit ==
    /\ ctx = newEISCPPacket
    /\ cpkt = newEISCPPacket
    /\ cprx = Validate(newEISCPPacket)
    /\ cmsg = NoMessage
    /\ cerr = FALSE
    /\ cop = "new"
    /\ cidx = 0
    /\ ncorrupt = 0
    /\ crx = Validate(newEISCPPacket)

\* txbuf.init(message.String()) on the reused buffer, and the buffer as it
\* would be written (integra.go:122-128).
Encode(m) ==
    LET r == init(ctx, String(m))
    IN  /\ cop \in {"new", "init"}
        /\ ctx' = r.p
        /\ cpkt' = r.p
        /\ cprx' = crx
        /\ cerr' = r.err
        /\ cmsg' = m
        /\ cop' = "init"
        /\ cidx' = 0
        /\ ncorrupt' = 0
        /\ crx' = Validate(r.p)

\* The device echoes a frame with the terminator for its direction: the
\* mock device's buffer[16+buffer[11]-1] = 0x1a.
echo(p) == [p EXCEPT ![ToByte(headerSize + p[dataSizeIndex] - 1)] = endOfPacketRx]

DeviceEcho ==
    /\ cop = "init"
    /\ ~cerr
    /\ cprx' = crx
    /\ cpkt' = echo(cpkt)
    /\ cop' = "echo"
    /\ crx' = Validate(echo(cpkt))
    /\ UNCHANGED <<ctx, cmsg, cerr, cidx, ncorrupt>>

\* One byte of the frame in flight is overwritten.
Corrupt(i, v) ==
    /\ cop \in {"init", "echo", "corrupt"}
    /\ ~cerr
    /\ ncorrupt < MaxCorrupt
    /\ cpkt[i] # v
    /\ cprx' = crx
    /\ cpkt' = [cpkt EXCEPT ![i] = v]
    /\ cop' = "corrupt"
    /\ cidx' = i
    /\ ncorrupt' = ncorrupt + 1
    /\ crx' = Validate([cpkt EXCEPT ![i] = v])
    /\ UNCHANGED <<ctx, cmsg, cerr>>

(***************************************************************************)
(* integra.go: the device session.                                         *)
(*                                                                         *)
(* Goroutines: mainLoop, receiveLoop, and the consumers' calls NewClient,  *)
(* Send, Receive and Close.  The channels add, remove, send, receive, exit *)
(* and Client.err are unbuffered, so a send and its receive are one step,  *)
(* taken when both sides are at the channel; a caller that waits at a      *)
(* channel has changed nothing yet and is a call not yet made.  Only       *)
(* mainLoop reads or writes d.clients, d.txbuf and the socket's write      *)
(* side, so each case of its select is one step, up to the next channel    *)
(* operation that can block (the reply on Client.err).                     *)
(***************************************************************************)
\* Calls of Send in a run, and frames that receiveLoop forwards in a run.
MaxSends == 2
MaxFrames == 2

\* The clients NewClient can make, in the order they are made.
Handles == {1, 2, 3}
\* The clients that are sent through, and the goroutines that call Send.
SendHandles == {1, 2}
Senders == {1, 2}
\* The clients whose consumer calls Close on the receive side; the third
\* one never does.
Closers == {1, 2}
\* The clients made while the device sends frames of every kind.
ReadHandles == {1, 2}

\* make(chan *Message): the capacity of Client.receive.
clientQueueCap == 0

Msg(c, q) == [Command |-> c, Parameter |-> q]
PWR01 == Msg(PWR, <<48, 49>>)
PWR02 == Msg(PWR, <<48, 50>>)
MVLQSTN == Msg(MVL, QSTN)
TooLong == Msg(PWR, PatternParam(maxMessageSize - 2))

\* The messages consumers send.
SendMessages == {PWR01, MVLQSTN, TooLong}

\* A frame as the device sends it: encoded, terminator 0x1a.
DeviceFrame(m) == echo(init(newEISCPPacket, String(m)).p)
\* The frames of the device that check accepts and message decodes.
ValidFrames == {DeviceFrame(PWR01), DeviceFrame(PWR02)}
\* What conn.Read brings: frames of the device, a frame with the wrong
\* terminator, and the frame of an empty message.
InboundFrames ==
    ValidFrames \cup {init(newEISCPPacket, String(PWR01)).p, DeviceFrame(NoMessage)}

\* conn.Write(txbuf): all 32 bytes and no error, or an error after n bytes.
FailedWriteLens == {0, headerSize}
WriteOutcomes ==
    {[err |-> FALSE, n |-> packetSize]} \cup {[err |-> TRUE, n |-> n] : n \in FailedWriteLens}

\* conn.Read(rxbuf): a frame, io.EOF, or another error.
ReadOutcomes ==
    {[kind |-> "frame", frame |-> f] : f \in InboundFrames}
        \cup {[kind |-> "eof", frame |-> zeroPacket], [kind |-> "error", frame |-> zeroPacket]}

\* The reads of a device that sends valid frames until the connection ends.
FanReads ==
    {[kind |-> "frame", frame |-> f] : f \in ValidFrames}
        \cup {[kind |-> "eof", frame |-> zeroPacket]}

\* Frames the cache is fed with: two values of one command and another
\* command.
MVL50 == Msg(MVL, <<53, 48>>)
CacheFrames == ValidFrames \cup {DeviceFrame(MVL50)}
CacheReads == {[kind |-> "frame", frame |-> f] : f \in CacheFrames}
\* Frames the cache observes in a run.
MaxObserved == 3
\* The client whose consumer calls Receive while the cache is read, and the
\* consumer that writes into the maps State returned to it.
CacheReceivers == {1}
Mutators == {1}
\* What it writes: "00", under either command.
MutKeys == {PWR, MVL}
MutValue == <<48, 48>>

\* The transmit buffer reused: requests one goroutine sends through one
\* client in a run, and what conn.Write does with them.
MaxReuse == 3
ReuseHandle == 1
ReuseSender == 1
ReuseWrites == {[err |-> FALSE, n |-> packetSize], [err |-> TRUE, n |-> headerSize]}

\* The inbound stream: the frames the device writes in a run, the counts of
\* bytes one conn.Read returns (half a frame or a whole one), and the
\* client that receives.
MaxStream == 2
StreamFrames == ValidFrames
ReadLens == {headerSize, packetSize}
StreamHandle == 1

\* The client and the sender at work while the cache is watched, and what
\* is sent.
EffectHandles == {1}
EffectSenders == {1}
EffectMessages == {PWR01, TooLong}

\* The client that two goroutines send through at once.
SharedHandle == 1

\* The clients of the link under load, and the one whose consumer receives.
LiveHandles == {1, 2}
LiveReceivers == {1}
\* What is sent and read there: one message, writes that complete with all
\* 32 bytes, one frame of the device, and io.EOF.
LiveMessages == {PWR01}
LiveWrites == {[err |-> FALSE, n |-> packetSize]}
LiveReads ==
    {[kind |-> "frame", frame |-> DeviceFrame(PWR01)], [kind |-> "eof", frame |-> zeroPacket]}

Bytes(p, n) == [k \in 1 .. n |-> p[k - 1]]

\* The run-time panics that end the process.
SlicePanic == "panic: slice bounds out of range"
ClosePanic == "panic: close of closed channel"
SendPanic == "panic: send on closed channel"

NoReply == [client |-> 0, err |-> "none", req |-> 0]
NoRequest == [client |-> 0, message |-> NoMessage]

VARIABLES
    host,       \* "running", "exited" (os.Exit) or one of the panics
    clients,    \* Device.clients: the set of clients mapped to true
    made,       \* per client: NewClient has handed it to mainLoop and can return it
    chanClosed, \* per client: Client.receive is closed
    queue,      \* per client: the buffer of Client.receive (broadcast numbers)
    receiving,  \* per client: a goroutine is blocked in Receive
    got,        \* per client: the broadcast numbers Receive has returned
    recvClosed, \* per client: a Receive has returned "channel closed"
    closeRet,   \* per client: a call of Close has returned
    unable,     \* the clients logged as "unable to receive"
    attachIdx,  \* per client: broadcasts made when mainLoop added it (-1: not yet)
    spc,        \* per sender: "idle", "send" (in Send, at c.device.send <-) or "err"
                \* (in Send, at <-c.err)
    sreq,       \* per sender: the request of its call
    sres,       \* per sender: what its last Send returned, and whose request that was
    nsends,     \* calls of Send so far
    mpc,        \* mainLoop: "select", "add" (at d.clients[client] = true) or "reply"
                \* (at request.client.err <- err)
    mreply,     \* mainLoop: the reply it is sending
    rpc,        \* receiveLoop: "read", "forward" (at d.receive <- message), "exit" (at d.exit <- 1)
    rmsg,       \* receiveLoop: the message it is forwarding
    rlast,      \* receiveLoop: how its last conn.Read ended
    nframes,    \* frames receiveLoop has forwarded or is forwarding
    txbuf,      \* Device.txbuf
    rxbuf,      \* Device.rxbuf
    stateM,     \* Device.state.m
    wire,       \* the bytes written to the socket, in order
    taken,      \* the requests mainLoop took from d.send, in order, with their outcome
    bcasts      \* the messages mainLoop broadcast, in order

sessionVars ==
    <<host, clients, made, chanClosed, queue, receiving, got, recvClosed,
      closeRet, unable, attachIdx, spc, sreq, sres, nsends, mpc, mreply, rpc, rmsg,
      rlast, nframes, txbuf, rxbuf, stateM, wire, taken, bcasts>>

clientVars ==
    <<made, chanClosed, queue, receiving, got, recvClosed, closeRet, unable,
      attachIdx>>
senderVars == <<spc, sreq, sres, nsends>>
receiveLoopVars == <<rpc, rmsg, rlast, nframes, rxbuf, stateM>>

VARIABLES
    \* Client.State and the lock of Device.state
    rlock,      \* the callers of State that hold d.state's read lock
    stpc,       \* per caller of State: "idle" or "copy" (in the loop over d.state.m)
    snapM,      \* per caller: the map its call of State made
    snapRef,    \* per caller: the map State returned to it: "none", "own" (the
                \* map the call made) or "cache" (d.state.m itself)
    seen,       \* per caller in State: the contents d.state.m has had since the call began
    calledAt    \* per caller in State: the broadcasts made when the call began

cacheVars == <<rlock, stpc, snapM, snapRef, seen, calledAt>>

VARIABLES
    \* serveIntegraPost (server/server.go)
    ppc,        \* "idle", "send" (before client.Send of a message), "reply" (in
                \* client.Send) or "done"
    pbody,      \* the request's body
    pidx,       \* the loop's index i (0-based) into messages
    presp       \* the response: "none", "ok", or the error's status

postVars == <<ppc, pbody, pidx, presp>>

VARIABLES
    \* the connection's inbound byte stream
    stream,     \* the bytes the device has written to the connection
    rpos,       \* how many of them conn.Read has returned
    rfrom       \* where in the stream the last conn.Read began

streamVars == <<stream, rpos, rfrom>>

\* What the session's own steps leave alone.
otherVars == <<codecVars, cacheVars, postVars, streamVars>>

vars == <<codecVars, sessionVars, cacheVars, postVars, streamVars>>

\* The consumers that call State, each on its own client.
StateCallers == {1, 2}

\* No call of State yet, and no request to the server.
CacheInit ==
    /\ rlock = {}
    /\ stpc = [c \in StateCallers |-> "idle"]
    /\ snapM = [c \in StateCallers |-> <<>>]
    /\ snapRef = [c \in StateCallers |-> "none"]
    /\ seen = [c \in StateCallers |-> {}]
    /\ calledAt = [c \in StateCallers |-> 0]

StreamInit ==
    /\ stream = <<>>
    /\ rpos = 0
    /\ rfrom = 0

PostInit ==
    /\ ppc = "idle"
    /\ pbody = <<>>
    /\ pidx = 0
    /\ presp = "none"

\* Connect (integra.go:68-81), with no client made yet.
SessionInit ==
    /\ host = "running"
    /\ clients = {}
    /\ made = [h \in Handles |-> FALSE]
    /\ chanClosed = [h \in Handles |-> FALSE]
    /\ queue = [h \in Handles |-> <<>>]
    /\ receiving = [h \in Handles |-> FALSE]
    /\ got = [h \in Handles |-> <<>>]
    /\ recvClosed = [h \in Handles |-> FALSE]
    /\ closeRet = [h \in Handles |-> FALSE]
    /\ unable = {}
    /\ attachIdx = [h \in Handles |-> -1]
    /\ spc = [s \in Senders |-> "idle"]
    /\ sreq = [s \in Senders |-> NoRequest]
    /\ sres = [s \in Senders |-> NoReply]
    /\ nsends = 0
    /\ mpc = "select"
    /\ mreply = NoReply
    /\ rpc = "read"
    /\ rmsg = NoMessage
    /\ rlast = "none"
    /\ nframes = 0
    /\ txbuf = newEISCPPacket
    /\ rxbuf = zeroPacket
    /\ stateM = <<>>
    /\ wire = <<>>
    /\ taken = <<>>
    /\ bcasts = <<>>

\* Device.removeClient: the clients map and the closed flags it leaves, and
\* whether close() hit a channel that was closed already.
removeClientNoClose(cs, closed, client) ==
    IF client \notin cs
    THEN [clients |-> cs, closed |-> closed, panic |-> FALSE]
    ELSE [clients |-> cs \ {client}, closed |-> closed, panic |-> FALSE]

\* A removeClient without the look at the map first.
removeClientNoCheck(cs, closed, client) ==
    [clients |-> cs \ {client},
     closed |-> [closed EXCEPT ![client] = TRUE],
     panic |-> closed[client]]

\* A removeClient that takes every client down with the one it removes.
removeClientAll(cs, closed, client) ==
    IF client \notin cs
    THEN [clients |-> cs, closed |-> closed, panic |-> FALSE]
    ELSE [clients |-> {},
          closed |-> [h \in DOMAIN closed |-> closed[h] \/ h \in cs],
          panic |-> closed[client]]

\* A removeClient that leaves the client where it is.
removeClientKeep(cs, closed, client) ==
    [clients |-> cs, closed |-> closed, panic |-> FALSE]

removeClient(cs, closed, client) ==
    IF client \notin cs
    THEN [clients |-> cs, closed |-> closed, panic |-> FALSE]
    ELSE [clients |-> cs \ {client},
          closed |-> [closed EXCEPT ![client] = TRUE],
          panic |-> closed[client]]

\* removeClient for each client of a set, one after the other.
RECURSIVE removeClients(_, _, _)
removeClients(cs, closed, S) ==
    IF S = {}
    THEN [clients |-> cs, closed |-> closed, panic |-> FALSE]
    ELSE LET c == CHOOSE x \in S : TRUE
             r == removeClient(cs, closed, c)
             rest == removeClients(r.clients, r.closed, S \ {c})
         IN  [clients |-> rest.clients, closed |-> rest.closed,
              panic |-> r.panic \/ rest.panic]

\* A Receive that stays blocked when its channel is closed.
ReleasedNone(closed) == {}

\* A Receive blocked on a channel returns "channel closed" when the channel
\* is closed.
Released(closed) == {h \in Handles : receiving[h] /\ closed[h]}

\* NewClient: d.add <- c meets mainLoop's case client := <-d.add, and
\* NewClient returns c.
NewClient(h) ==
    /\ host = "running"
    /\ mpc = "select"
    /\ ~made[h]
    /\ \A g \in Handles : g < h => made[g]
    /\ made' = [made EXCEPT ![h] = TRUE]
    /\ mpc' = "add"
    /\ UNCHANGED <<host, clients, chanClosed, queue, receiving, got, recvClosed, closeRet,
                   unable, attachIdx, senderVars, mreply, receiveLoopVars, txbuf, wire,
                   taken, bcasts>>

\* An add that hands the new client the last broadcast.
MainLoopAddReplay(h) ==
    /\ host = "running"
    /\ mpc = "add"
    /\ made[h]
    /\ attachIdx[h] = -1
    /\ clients' = clients \cup {h}
    /\ attachIdx' = [attachIdx EXCEPT ![h] = Len(bcasts)]
    /\ queue' = [queue EXCEPT ![h] = IF bcasts = <<>> THEN <<>> ELSE <<Len(bcasts)>>]
    /\ mpc' = "select"
    /\ UNCHANGED <<host, made, chanClosed, receiving, got, recvClosed, closeRet, unable,
                   senderVars, mreply, receiveLoopVars, txbuf, wire, taken, bcasts>>

\* An add that takes the client from d.add and does not put it in d.clients.
MainLoopAddForget(h) ==
    /\ host = "running"
    /\ mpc = "add"
    /\ made[h]
    /\ attachIdx[h] = -1
    /\ attachIdx' = [attachIdx EXCEPT ![h] = Len(bcasts)]
    /\ mpc' = "select"
    /\ UNCHANGED <<host, clients, made, chanClosed, queue, receiving, got, recvClosed,
                   closeRet, unable, senderVars, mreply, receiveLoopVars, txbuf, wire,
                   taken, bcasts>>

\* mainLoop, case client := <-d.add: d.clients[client] = true, for the
\* client it has just taken from d.add.
MainLoopAdd(h) ==
    /\ host = "running"
    /\ mpc = "add"
    /\ made[h]
    /\ attachIdx[h] = -1
    /\ clients' = clients \cup {h}
    /\ attachIdx' = [attachIdx EXCEPT ![h] = Len(bcasts)]
    /\ mpc' = "select"
    /\ UNCHANGED <<host, made, chanClosed, queue, receiving, got, recvClosed, closeRet,
                   unable, senderVars, mreply, receiveLoopVars, txbuf, wire, taken,
                   bcasts>>

\* Client.Close and mainLoop's case client := <-d.remove.
ClientClose(h) ==
    LET r == removeClient(clients, chanClosed, h)
    IN  /\ host = "running"
        /\ mpc = "select"
        /\ made[h]
        /\ clients' = r.clients
        /\ chanClosed' = r.closed
        /\ host' = IF r.panic THEN ClosePanic ELSE host
        /\ closeRet' = [closeRet EXCEPT ![h] = ~r.panic]
        /\ receiving' = [g \in Handles |-> receiving[g] /\ g \notin Released(r.closed)]
        /\ recvClosed' = [g \in Handles |-> recvClosed[g] \/ g \in Released(r.closed)]
        /\ UNCHANGED <<made, queue, got, unable, attachIdx, senderVars, mpc, mreply,
                       receiveLoopVars, txbuf, wire, taken, bcasts>>

\* conn.Write before txbuf.init: the buffer goes out as the request before
\* left it.
mainLoopSendStale(buf, m, w) ==
    LET r == init(buf, String(m))
        n == IF r.err THEN 0 ELSE w.n
    IN  [txbuf |-> r.p,
         err |-> IF r.err THEN "tooLong" ELSE IF w.err THEN "writeFailed" ELSE "ok",
         n |-> n,
         out |-> Bytes(buf, n)]

\* The error of conn.Write is dropped: nil goes back to the requester.
mainLoopSendNilErr(buf, m, w) ==
    LET r == init(buf, String(m))
        n == IF r.err THEN 0 ELSE w.n
    IN  [txbuf |-> r.p,
         err |-> IF r.err THEN "tooLong" ELSE "ok",
         n |-> n,
         out |-> Bytes(r.p, n)]

\* No continue after a failed init: the buffer is written as it is.
mainLoopSendNoContinue(buf, m, w) ==
    LET r == init(buf, String(m))
    IN  [txbuf |-> r.p,
         err |-> IF w.err THEN "writeFailed" ELSE "ok",
         n |-> w.n,
         out |-> Bytes(r.p, w.n)]

\* mainLoop, case request := <-d.send: the buffer init leaves, the error
\* sent back, and the bytes conn.Write puts out.
mainLoopSend(buf, m, w) ==
    LET r == init(buf, String(m))
        n == IF r.err THEN 0 ELSE w.n
    IN  [txbuf |-> r.p,
         err |-> IF r.err THEN "tooLong" ELSE IF w.err THEN "writeFailed" ELSE "ok",
         n |-> n,
         out |-> Bytes(r.p, n)]

\* Client.Send up to <-c.err, and mainLoop's case request := <-d.send up to
\* request.client.err <- err.
ClientSend(s, h, m, w) ==
    LET r == mainLoopSend(txbuf, m, w)
    IN  /\ host = "running"
        /\ mpc = "select"
        /\ spc[s] = "idle"
        /\ made[h]
        /\ r.err = "tooLong" => w = [err |-> FALSE, n |-> packetSize]
        /\ nsends' = nsends + 1
        /\ sreq' = [sreq EXCEPT ![s] = [client |-> h, message |-> m]]
        /\ spc' = [spc EXCEPT ![s] = "err"]
        /\ txbuf' = r.txbuf
        /\ wire' = wire \o r.out
        /\ taken' = Append(taken, [req |-> s, client |-> h, message |-> m,
                                   outcome |-> r.err, n |-> r.n])
        /\ mreply' = [client |-> h, err |-> r.err, req |-> s]
        /\ mpc' = "reply"
        /\ UNCHANGED <<host, clients, clientVars, sres, receiveLoopVars, bcasts>>

\* Client.Send is called and waits at c.device.send <- &sendRequest{m, c}.
ClientSendSubmit(s, h, m) ==
    /\ host = "running"
    /\ spc[s] = "idle"
    /\ made[h]
    /\ nsends' = nsends + 1
    /\ sreq' = [sreq EXCEPT ![s] = [client |-> h, message |-> m]]
    /\ spc' = [spc EXCEPT ![s] = "send"]
    /\ UNCHANGED <<host, clients, clientVars, sres, mpc, mreply, receiveLoopVars, txbuf,
                   wire, taken, bcasts>>

\* mainLoop's case request := <-d.send takes the request of a waiting Send,
\* up to request.client.err <- err.
MainLoopTake(s, w) ==
    LET r == mainLoopSend(txbuf, sreq[s].message, w)
    IN  /\ host = "running"
        /\ mpc = "select"
        /\ spc[s] = "send"
        /\ r.err = "tooLong" => w = [err |-> FALSE, n |-> packetSize]
        /\ spc' = [spc EXCEPT ![s] = "err"]
        /\ txbuf' = r.txbuf
        /\ wire' = wire \o r.out
        /\ taken' = Append(taken, [req |-> s, client |-> sreq[s].client,
                                   message |-> sreq[s].message,
                                   outcome |-> r.err, n |-> r.n])
        /\ mreply' = [client |-> sreq[s].client, err |-> r.err, req |-> s]
        /\ mpc' = "reply"
        /\ UNCHANGED <<host, clients, clientVars, sreq, sres, nsends, receiveLoopVars,
                       bcasts>>

\* The reply is handed to any goroutine that is in Send on that client,
\* also one whose request mainLoop has not taken.
MainLoopReplyAnyInSend(s) ==
    /\ host = "running"
    /\ mpc = "reply"
    /\ spc[s] # "idle"
    /\ sreq[s].client = mreply.client
    /\ sres' = [sres EXCEPT ![s] = mreply]
    /\ spc' = [spc EXCEPT ![s] = "idle"]
    /\ mpc' = "select"
    /\ mreply' = NoReply
    /\ UNCHANGED <<host, clients, clientVars, sreq, nsends, receiveLoopVars, txbuf,
                   wire, taken, bcasts>>

\* request.client.err <- err meets a Send's <-c.err on that client.
MainLoopReply(s) ==
    /\ host = "running"
    /\ mpc = "reply"
    /\ spc[s] = "err"
    /\ sreq[s].client = mreply.client
    /\ sres' = [sres EXCEPT ![s] = mreply]
    /\ spc' = [spc EXCEPT ![s] = "idle"]
    /\ mpc' = "select"
    /\ mreply' = NoReply
    /\ UNCHANGED <<host, clients, clientVars, sreq, nsends, receiveLoopVars, txbuf,
                   wire, taken, bcasts>>

\* m, ok := <-c.receive, with no broadcast at hand: a buffered message, ok
\* false when the channel is closed and empty, or the goroutine blocks.
chanReceive(h) ==
    IF queue[h] # <<>> THEN "message"
    ELSE IF chanClosed[h] THEN "closed"
    ELSE "blocks"

\* Client.Receive is called: it takes a buffered message, or returns
\* "channel closed", or blocks.
ClientReceive(h) ==
    /\ host = "running"
    /\ made[h]
    /\ ~receiving[h]
    /\ IF chanReceive(h) = "message"
       THEN /\ got' = [got EXCEPT ![h] = Append(@, Head(queue[h]))]
            /\ queue' = [queue EXCEPT ![h] = Tail(@)]
            /\ UNCHANGED <<receiving, recvClosed>>
       ELSE IF chanReceive(h) = "closed"
       THEN /\ recvClosed' = [recvClosed EXCEPT ![h] = TRUE]
            /\ UNCHANGED <<got, queue, receiving>>
       ELSE /\ receiving' = [receiving EXCEPT ![h] = TRUE]
            /\ UNCHANGED <<got, queue, recvClosed>>
    /\ UNCHANGED <<host, clients, made, chanClosed, closeRet, unable, attachIdx,
                   senderVars, mpc, mreply, receiveLoopVars, txbuf, wire, taken, bcasts>>

\* An update that keeps the entry a command already has.
observeFirstWins(m, msg) ==
    [c \in (DOMAIN m) \cup {msg.Command} |->
        IF c \in DOMAIN m THEN m[c] ELSE msg.Parameter]

\* The update is missing.
observeNone(m, msg) == m

\* d.state.m[message.Command] = message.Parameter
observe(m, msg) ==
    [c \in (DOMAIN m) \cup {msg.Command} |->
        IF c = msg.Command THEN msg.Parameter ELSE m[c]]

\* A d.state.Lock() that does not wait for the readers.
LockAlways == TRUE

\* d.state.Lock(): granted when no reader holds the lock.  The writer's
\* section is inside one step, so a reader never finds the lock taken.
Lock == rlock = {}

\* The cache is updated before the frame is checked: a frame that check
\* rejects leaves its message in d.state.m.
ReceiveLoopReadObserveBad(o) ==
    LET buf == IF o.kind = "frame" THEN o.frame ELSE rxbuf
        rx == receive(buf, endOfPacketRx)
    IN  /\ host = "running"
        /\ rpc = "read"
        /\ rxbuf' = buf
        /\ IF o.kind = "eof"
           THEN /\ rpc' = "exit"
                /\ rlast' = "eof"
                /\ UNCHANGED <<host, rmsg, stateM, nframes>>
           ELSE IF o.kind = "error"
           THEN /\ rlast' = "error"
                /\ UNCHANGED <<host, rpc, rmsg, stateM, nframes>>
           ELSE IF rx.chk # "ok"
           THEN /\ rlast' = "bad"
                /\ stateM' = IF message(buf).panic THEN stateM
                             ELSE observe(stateM, [Command |-> message(buf).Command,
                                                   Parameter |-> message(buf).Parameter])
                /\ UNCHANGED <<host, rpc, rmsg, nframes>>
           ELSE IF rx.panic
           THEN /\ host' = SlicePanic
                /\ rlast' = "ok"
                /\ UNCHANGED <<rpc, rmsg, stateM, nframes>>
           ELSE /\ Lock
                /\ nframes' = nframes + 1
                /\ stateM' = observe(stateM, rx.msg)
                /\ rmsg' = rx.msg
                /\ rpc' = "forward"
                /\ rlast' = "ok"
                /\ UNCHANGED host
        /\ UNCHANGED <<clients, clientVars, senderVars, mpc, mreply, txbuf, wire, taken,
                       bcasts>>

\* receiveLoop: one turn of the loop, from conn.Read to the send on
\* d.receive (or on d.exit, or back to Read).  A turn that has to wait at
\* d.state.Lock() is a turn taken when the lock is free: until then it has
\* touched only rxbuf, which no one else reads.
ReceiveLoopRead(o) ==
    LET buf == IF o.kind = "frame" THEN o.frame ELSE rxbuf
        rx == receive(buf, endOfPacketRx)
    IN  /\ host = "running"
        /\ rpc = "read"
        /\ rxbuf' = buf
        /\ IF o.kind = "eof"
           THEN /\ rpc' = "exit"
                /\ rlast' = "eof"
                /\ UNCHANGED <<host, rmsg, stateM, nframes>>
           ELSE IF o.kind = "error"
           THEN /\ rlast' = "error"
                /\ UNCHANGED <<host, rpc, rmsg, stateM, nframes>>
           ELSE IF rx.chk # "ok"
           THEN /\ rlast' = "bad"
                /\ UNCHANGED <<host, rpc, rmsg, stateM, nframes>>
           ELSE IF rx.panic
           THEN /\ host' = SlicePanic
                /\ rlast' = "ok"
                /\ UNCHANGED <<rpc, rmsg, stateM, nframes>>
           ELSE /\ Lock
                /\ nframes' = nframes + 1
                /\ stateM' = observe(stateM, rx.msg)
                /\ rmsg' = rx.msg
                /\ rpc' = "forward"
                /\ rlast' = "ok"
                /\ UNCHANGED host
        /\ UNCHANGED <<clients, clientVars, senderVars, mpc, mreply, txbuf, wire, taken,
                       bcasts>>

\* The device writes a frame to the connection.
DeviceWrite(f) ==
    /\ host = "running"
    /\ stream' = stream \o Bytes(f, packetSize)
    /\ UNCHANGED <<rpos, rfrom, sessionVars>>

\* n, err := d.conn.Read(d.rxbuf) on the stream: Read copies the n bytes it
\* has into d.rxbuf[0:n] and leaves the rest of the buffer as it was; the
\* turn of receiveLoop goes on with the buffer, whatever n is.
ConnRead(n) ==
    LET buf == [i \in Offsets |-> IF i < n THEN stream[rpos + i + 1] ELSE rxbuf[i]]
    IN  /\ n <= Len(stream) - rpos
        /\ ReceiveLoopRead([kind |-> "frame", frame |-> buf])
        /\ rpos' = rpos + n
        /\ rfrom' = rpos
        /\ UNCHANGED stream

\* A send on client.receive that is always taken, as on a channel with room.
CanDeliverAlways(h) == TRUE

\* The select of the broadcast, case client.receive <- message: it can be
\* taken when a receiver is waiting or the buffer has room.
CanDeliver(h) == receiving[h] \/ Len(queue[h]) < clientQueueCap

\* mainLoop, case message := <-d.receive: the loop over d.clients.
MainLoopReceive ==
    LET idx == Len(bcasts) + 1
        delivered == {h \in clients : CanDeliver(h)}
        evicted == clients \ delivered
        r == removeClients(clients, chanClosed, evicted)
    IN  /\ host = "running"
        /\ mpc = "select"
        /\ rpc = "forward"
        /\ rpc' = "read"
        /\ got' = [h \in Handles |->
                      IF h \in delivered /\ receiving[h] THEN Append(got[h], idx) ELSE got[h]]
        /\ queue' = [h \in Handles |->
                      IF h \in delivered /\ ~receiving[h] THEN Append(queue[h], idx)
                      ELSE queue[h]]
        /\ receiving' = [h \in Handles |-> receiving[h] /\ h \notin delivered]
        /\ clients' = r.clients
        /\ chanClosed' = r.closed
        /\ host' = IF r.panic THEN ClosePanic
                   ELSE IF \E h \in delivered : chanClosed[h] THEN SendPanic
                   ELSE host
        /\ unable' = unable \cup evicted
        /\ bcasts' = Append(bcasts, rmsg)
        /\ UNCHANGED <<made, recvClosed, closeRet, attachIdx,
                       senderVars, mpc, mreply, rmsg, rlast, nframes, rxbuf, stateM,
                       txbuf, wire, taken>>

\* mainLoop, case code := <-d.exit: os.Exit(code).
MainLoopExit ==
    /\ host = "running"
    /\ mpc = "select"
    /\ rpc = "exit"
    /\ host' = "exited"
    /\ UNCHANGED <<clients, clientVars, senderVars, mpc, mreply, receiveLoopVars,
                   txbuf, wire, taken, bcasts>>

\* The session's variables but d.state.m.
sessionButState ==
    <<host, clients, clientVars, senderVars, mpc, mreply, rpc, rmsg, rlast, nframes,
      rxbuf, txbuf, wire, taken, bcasts>>

\* delete(m, k) on a map.
delete(m, k) == [c \in (DOMAIN m) \ {k} |-> m[c]]

\* The map a caller holds after State returned: its contents now.
Snapshot(c) == IF snapRef[c] = "cache" THEN stateM ELSE snapM[c]

\* Client.State up to the loop: state := make(map[string]string) and
\* c.device.state.RLock().
StateRLock(c) ==
    /\ host = "running"
    /\ made[c]
    /\ stpc[c] = "idle"
    /\ stpc' = [stpc EXCEPT ![c] = "copy"]
    /\ snapM' = [snapM EXCEPT ![c] = <<>>]
    /\ snapRef' = [snapRef EXCEPT ![c] = "none"]
    /\ rlock' = rlock \cup {c}
    /\ seen' = [seen EXCEPT ![c] = {stateM}]
    /\ calledAt' = [calledAt EXCEPT ![c] = Len(bcasts)]
    /\ UNCHANGED sessionVars

\* One turn of for k, v := range c.device.state.m: state[k] = v, for an
\* entry the loop has not produced yet.
StateCopy(c, k) ==
    /\ host = "running"
    /\ stpc[c] = "copy"
    /\ k \in DOMAIN stateM
    /\ k \notin DOMAIN snapM[c]
    /\ snapM' = [snapM EXCEPT ![c] = observe(@, Msg(k, stateM[k]))]
    /\ UNCHANGED <<rlock, stpc, snapRef, seen, calledAt, sessionVars>>

\* A State that returns d.state.m itself.
StateReturnAlias(c) ==
    /\ host = "running"
    /\ stpc[c] = "copy"
    /\ DOMAIN stateM \subseteq DOMAIN snapM[c]
    /\ stpc' = [stpc EXCEPT ![c] = "idle"]
    /\ rlock' = rlock \ {c}
    /\ snapRef' = [snapRef EXCEPT ![c] = "cache"]
    /\ seen' = [seen EXCEPT ![c] = {}]
    /\ calledAt' = [calledAt EXCEPT ![c] = 0]
    /\ UNCHANGED <<snapM, sessionVars>>

\* The loop is over: c.device.state.RUnlock() and return state.
StateReturn(c) ==
    /\ host = "running"
    /\ stpc[c] = "copy"
    /\ DOMAIN stateM \subseteq DOMAIN snapM[c]
    /\ stpc' = [stpc EXCEPT ![c] = "idle"]
    /\ rlock' = rlock \ {c}
    /\ snapRef' = [snapRef EXCEPT ![c] = "own"]
    /\ seen' = [seen EXCEPT ![c] = {}]
    /\ calledAt' = [calledAt EXCEPT ![c] = 0]
    /\ UNCHANGED <<snapM, sessionVars>>

\* d.state.m's contents are added to what each call of State under way has
\* seen.
Seen(m) == [c \in StateCallers |-> IF stpc[c] = "copy" THEN seen[c] \cup {m} ELSE seen[c]]

\* The consumer writes state[k] = v into the map State returned to it.
SnapshotPut(c, k, v) ==
    /\ stpc[c] = "idle"
    /\ snapRef[c] # "none"
    /\ IF snapRef[c] = "own"
       THEN /\ snapM' = [snapM EXCEPT ![c] = observe(@, Msg(k, v))]
            /\ UNCHANGED stateM
       ELSE /\ stateM' = observe(stateM, Msg(k, v))
            /\ UNCHANGED snapM
    /\ seen' = Seen(stateM')
    /\ UNCHANGED <<rlock, stpc, snapRef, calledAt, sessionButState>>

\* The consumer deletes an entry of the map State returned to it.
SnapshotDelete(c, k) ==
    /\ stpc[c] = "idle"
    /\ snapRef[c] # "none"
    /\ k \in DOMAIN Snapshot(c)
    /\ IF snapRef[c] = "own"
       THEN /\ snapM' = [snapM EXCEPT ![c] = delete(@, k)]
            /\ UNCHANGED stateM
       ELSE /\ stateM' = delete(stateM, k)
            /\ UNCHANGED snapM
    /\ seen' = Seen(stateM')
    /\ UNCHANGED <<rlock, stpc, snapRef, calledAt, sessionButState>>

(***************************************************************************)
(* server/server.go: serveIntegraPost, the handler of POST /integra.  It   *)
(* sends through the server's one client.                                  *)
(***************************************************************************)
\* if len(messages) > 10
maxPostMessages == 10
Newline == 10

\* The server's client, and the handler as a caller of Send.
PostClient == 1
PostSender == 1

\* bytes.Split(b, []byte("\n")): the parts of b between its newlines; a
\* body without a newline, the empty body too, is one part.
RECURSIVE Split(_)
Split(b) ==
    IF \A i \in 1 .. Len(b) : b[i] # Newline
    THEN <<b>>
    ELSE LET i == CHOOSE k \in 1 .. Len(b) :
                      b[k] = Newline /\ \A j \in 1 .. (k - 1) : b[j] # Newline
         IN  <<SubSeq(b, 1, i - 1)>> \o Split(SubSeq(b, i + 1, Len(b)))

\* integra.NewMessage: a command of 3 bytes and the rest as the parameter;
\* fewer than 3 bytes make no message.
NewMessage(b) ==
    IF Len(b) < 3
    THEN [err |-> TRUE, msg |-> NoMessage]
    ELSE [err |-> FALSE, msg |-> Msg(SubSeq(b, 1, 3), SubSeq(b, 4, Len(b)))]

\* A check that already turns down a body of 10 messages.
postLimitOffByOne(messages) == Len(messages) >= maxPostMessages

\* if len(messages) > 10
postLimit(messages) == Len(messages) > maxPostMessages

\* The loop of serveIntegraPost from the top of turn i (0-based) up to its
\* client.Send, or to the handler's return.
postLoop(messages, i) ==
    IF i >= Len(messages) THEN [pc |-> "done", resp |-> "ok"]
    ELSE IF NewMessage(messages[i + 1]).err THEN [pc |-> "done", resp |-> "400 Bad Request"]
    ELSE [pc |-> "send", resp |-> "none"]

\* A POST arrives: the body is read and split, the limit is checked, and
\* the loop runs up to its first client.Send.
ServeIntegraPost(b) ==
    LET messages == Split(b)
        r == IF postLimit(messages)
             THEN [pc |-> "done", resp |-> "400 Bad Request"]
             ELSE postLoop(messages, 0)
    IN  /\ host = "running"
        /\ ppc = "idle"
        /\ made[PostClient]
        /\ pbody' = b
        /\ pidx' = 0
        /\ ppc' = r.pc
        /\ presp' = r.resp
        /\ UNCHANGED sessionVars

\* err = client.Send(message), up to <-c.err.
PostSend(w) ==
    /\ ppc = "send"
    /\ ClientSend(PostSender, PostClient, NewMessage(Split(pbody)[pidx + 1]).msg, w)
    /\ ppc' = "reply"
    /\ UNCHANGED <<pbody, pidx, presp>>

\* client.Send returns: the handler answers with the error, or goes on to
\* the next message, or answers ok after the last.
PostReply ==
    LET r == IF mreply.err # "ok"
             THEN [pc |-> "done", resp |-> "500 Internal Server Error"]
             ELSE postLoop(Split(pbody), pidx + 1)
    IN  /\ ppc = "reply"
        /\ MainLoopReply(PostSender)
        /\ pidx' = pidx + 1
        /\ ppc' = r.pc
        /\ presp' = r.resp
        /\ UNCHANGED pbody

\* The lines of the bodies tried: two messages, a message too long to
\* encode, and an empty line.
PostLines == {String(PWR01), String(MVLQSTN), String(TooLong), <<>>}

RECURSIVE Join(_)
Join(ls) ==
    IF Len(ls) = 1 THEN ls[1] ELSE ls[1] \o <<Newline>> \o Join(Tail(ls))

\* n messages, PWR01 and MVLQSTN in turn.
Batch(n) == [k \in 1 .. n |-> IF k % 2 = 1 THEN String(PWR01) ELSE String(MVLQSTN)]

\* The bodies: every one or two lines, batches around the limit, and a
\* batch of 10 with a newline after the last message.
PostBodies ==
    {Join(ls) : ls \in [1 .. 1 -> PostLines] \cup [1 .. 2 -> PostLines]}
        \cup {Join(Batch(n)) : n \in (maxPostMessages - 1) .. (maxPostMessages + 1)}
        \cup {Join(Batch(maxPostMessages)) \o <<Newline>>}

Init == CodecInit /\ SessionInit /\ CacheInit /\ PostInit /\ StreamInit

\* The codec alone: the session stays as Connect left it.
CodecNext ==
    \/ \E m \in CodecMessages : Encode(m) /\ UNCHANGED <<sessionVars, cacheVars, postVars, streamVars>>
    \/ DeviceEcho /\ UNCHANGED <<sessionVars, cacheVars, postVars, streamVars>>
    \/ \E i \in CorruptOffsets(cpkt), v \in CorruptValues :
            Corrupt(i, v) /\ UNCHANGED <<sessionVars, cacheVars, postVars, streamVars>>

\* The device sends at most n frames that receiveLoop forwards; its other
\* reads are not counted.
CanRead(o, n) ==
    (o.kind = "frame" /\ receive(o.frame, endOfPacketRx).chk = "ok"
        /\ ~receive(o.frame, endOfPacketRx).panic) => nframes < n

\* The consumers' receive side: clients come and go, receive, and the
\* device's frames are read and broadcast.
FanNext ==
    \/ \E h \in Handles : NewClient(h) /\ UNCHANGED otherVars
    \/ \E h \in Handles : MainLoopAdd(h) /\ UNCHANGED otherVars
    \/ \E h \in Closers : ClientClose(h) /\ UNCHANGED otherVars
    \/ \E h \in Handles : ClientReceive(h) /\ UNCHANGED otherVars
    \/ \E o \in FanReads :
            CanRead(o, MaxFrames) /\ ReceiveLoopRead(o) /\ UNCHANGED otherVars
    \/ MainLoopReceive /\ UNCHANGED otherVars
    \/ MainLoopExit /\ UNCHANGED otherVars

\* The receive side with every outcome of conn.Read: bad frames, read
\* errors, the end of the connection.
ReadNext ==
    \/ \E h \in ReadHandles : NewClient(h) /\ UNCHANGED otherVars
    \/ \E h \in ReadHandles : MainLoopAdd(h) /\ UNCHANGED otherVars
    \/ \E h \in ReadHandles : ClientClose(h) /\ UNCHANGED otherVars
    \/ \E h \in ReadHandles : ClientReceive(h) /\ UNCHANGED otherVars
    \/ \E o \in ReadOutcomes :
            CanRead(o, MaxFrames) /\ ReceiveLoopRead(o) /\ UNCHANGED otherVars
    \/ MainLoopReceive /\ UNCHANGED otherVars
    \/ MainLoopExit /\ UNCHANGED otherVars

\* The consumers' send side.
SendNext ==
    \/ \E h \in SendHandles : NewClient(h) /\ UNCHANGED otherVars
    \/ \E h \in SendHandles : MainLoopAdd(h) /\ UNCHANGED otherVars
    \/ \E h \in SendHandles : ClientClose(h) /\ UNCHANGED otherVars
    \/ \E s \in Senders, h \in SendHandles, m \in SendMessages, w \in WriteOutcomes :
            nsends < MaxSends /\ ClientSend(s, h, m, w) /\ UNCHANGED otherVars
    \/ \E s \in Senders : MainLoopReply(s) /\ UNCHANGED otherVars

\* The cache: frames of two commands are read and broadcast while consumers
\* receive and call State.
CacheNext ==
    \/ \E h \in StateCallers : NewClient(h) /\ UNCHANGED otherVars
    \/ \E h \in StateCallers : MainLoopAdd(h) /\ UNCHANGED otherVars
    \/ \E h \in CacheReceivers : ClientReceive(h) /\ UNCHANGED otherVars
    \/ \E o \in CacheReads :
            /\ CanRead(o, MaxFrames)
            /\ ReceiveLoopRead(o)
            /\ seen' = Seen(stateM')
            /\ UNCHANGED <<codecVars, postVars, streamVars, rlock, stpc, snapM, snapRef, calledAt>>
    \/ MainLoopReceive /\ UNCHANGED otherVars
    \/ \E c \in StateCallers : StateRLock(c) /\ UNCHANGED <<codecVars, postVars, streamVars>>
    \/ \E c \in StateCallers, k \in DOMAIN stateM :
            StateCopy(c, k) /\ UNCHANGED <<codecVars, postVars, streamVars>>
    \/ \E c \in StateCallers : StateReturn(c) /\ UNCHANGED <<codecVars, postVars, streamVars>>

\* The maps State returns: consumers call State and write into the maps
\* it returned to them while the cache is updated.
SnapNext ==
    \/ \E h \in StateCallers : NewClient(h) /\ UNCHANGED otherVars
    \/ \E h \in StateCallers : MainLoopAdd(h) /\ UNCHANGED otherVars
    \/ \E o \in CacheReads :
            /\ CanRead(o, MaxObserved)
            /\ ReceiveLoopRead(o)
            /\ seen' = Seen(stateM')
            /\ UNCHANGED <<codecVars, postVars, streamVars, rlock, stpc, snapM, snapRef, calledAt>>
    \/ MainLoopReceive /\ UNCHANGED otherVars
    \/ \E c \in StateCallers : StateRLock(c) /\ UNCHANGED <<codecVars, postVars, streamVars>>
    \/ \E c \in StateCallers, k \in DOMAIN stateM :
            StateCopy(c, k) /\ UNCHANGED <<codecVars, postVars, streamVars>>
    \/ \E c \in StateCallers : StateReturn(c) /\ UNCHANGED <<codecVars, postVars, streamVars>>
    \/ \E c \in Mutators, k \in MutKeys :
            SnapshotPut(c, k, MutValue) /\ UNCHANGED <<codecVars, postVars, streamVars>>
    \/ \E c \in Mutators, k \in MutKeys :
            SnapshotDelete(c, k) /\ UNCHANGED <<codecVars, postVars, streamVars>>

\* The server: its client is made, and one POST /integra is served.
PostNext ==
    \/ NewClient(PostClient) /\ UNCHANGED otherVars
    \/ MainLoopAdd(PostClient) /\ UNCHANGED otherVars
    \/ \E b \in PostBodies : ServeIntegraPost(b) /\ UNCHANGED <<codecVars, cacheVars, streamVars>>
    \/ \E w \in WriteOutcomes : PostSend(w) /\ UNCHANGED <<codecVars, cacheVars, streamVars>>
    \/ PostReply /\ UNCHANGED <<codecVars, cacheVars, streamVars>>

\* The link under load: sends wait to be taken while frames are read and
\* broadcast; client 1's consumer receives, client 2's never does.
LiveAdd == \E h \in LiveHandles : MainLoopAdd(h) /\ UNCHANGED otherVars
LiveTake(s) == \E w \in LiveWrites : MainLoopTake(s, w) /\ UNCHANGED otherVars
LiveReply(s) == MainLoopReply(s) /\ UNCHANGED otherVars
LiveReceive == MainLoopReceive /\ UNCHANGED otherVars
LiveExit == MainLoopExit /\ UNCHANGED otherVars

LiveNext ==
    \/ \E h \in LiveHandles : NewClient(h) /\ UNCHANGED otherVars
    \/ LiveAdd
    \/ \E h \in LiveReceivers : ClientReceive(h) /\ UNCHANGED otherVars
    \/ \E s \in Senders, h \in LiveHandles, m \in LiveMessages :
            nsends < MaxSends /\ ClientSendSubmit(s, h, m) /\ UNCHANGED otherVars
    \/ \E s \in Senders : LiveTake(s)
    \/ \E s \in Senders : LiveReply(s)
    \/ \E o \in LiveReads :
            CanRead(o, MaxFrames) /\ ReceiveLoopRead(o) /\ UNCHANGED otherVars
    \/ LiveReceive
    \/ LiveExit

\* mainLoop runs when it can, its select takes a case that is ready again
\* and again, and a Send that is offered its reply takes it.
LiveFairness ==
    /\ WF_vars(LiveAdd)
    /\ \A s \in Senders : SF_vars(LiveTake(s))
    /\ \A s \in Senders : WF_vars(LiveReply(s))
    /\ SF_vars(LiveReceive)
    /\ SF_vars(LiveExit)

\* d.txbuf over a run of requests: longer and shorter messages, messages
\* that init rejects, writes that fail.
ReuseNext ==
    \/ NewClient(ReuseHandle) /\ UNCHANGED otherVars
    \/ MainLoopAdd(ReuseHandle) /\ UNCHANGED otherVars
    \/ \E m \in SendMessages, w \in ReuseWrites :
            nsends < MaxReuse /\ ClientSend(ReuseSender, ReuseHandle, m, w)
                /\ UNCHANGED otherVars
    \/ MainLoopReply(ReuseSender) /\ UNCHANGED otherVars

\* One client shared by the senders: their Sends wait at d.send, mainLoop
\* takes one request at a time and hands its error back on the client's
\* one err channel.
ShareNext ==
    \/ NewClient(SharedHandle) /\ UNCHANGED otherVars
    \/ MainLoopAdd(SharedHandle) /\ UNCHANGED otherVars
    \/ \E s \in Senders, m \in SendMessages :
            nsends < MaxSends /\ ClientSendSubmit(s, SharedHandle, m) /\ UNCHANGED otherVars
    \/ \E s \in Senders, w \in WriteOutcomes : MainLoopTake(s, w) /\ UNCHANGED otherVars
    \/ \E s \in Senders : MainLoopReply(s) /\ UNCHANGED otherVars

\* Everything the session does, side by side: a client is made, closes,
\* receives or is removed, requests are sent, written or rejected, and
\* conn.Read brings good frames, bad frames, errors and the end.
EffectNext ==
    \/ \E h \in EffectHandles : NewClient(h) /\ UNCHANGED otherVars
    \/ \E h \in EffectHandles : MainLoopAdd(h) /\ UNCHANGED otherVars
    \/ \E h \in EffectHandles : ClientClose(h) /\ UNCHANGED otherVars
    \/ \E h \in EffectHandles : ClientReceive(h) /\ UNCHANGED otherVars
    \/ \E s \in EffectSenders, h \in EffectHandles, m \in EffectMessages, w \in ReuseWrites :
            nsends < MaxSends /\ ClientSend(s, h, m, w) /\ UNCHANGED otherVars
    \/ \E s \in EffectSenders : MainLoopReply(s) /\ UNCHANGED otherVars
    \/ \E o \in ReadOutcomes :
            CanRead(o, MaxFrames) /\ ReceiveLoopRead(o) /\ UNCHANGED otherVars
    \/ MainLoopReceive /\ UNCHANGED otherVars
    \/ MainLoopExit /\ UNCHANGED otherVars

\* The connection as a stream of bytes: the device writes frames, and a
\* conn.Read returns the bytes that have arrived, a whole frame or less.
StreamNext ==
    \/ NewClient(StreamHandle) /\ UNCHANGED otherVars
    \/ MainLoopAdd(StreamHandle) /\ UNCHANGED otherVars
    \/ ClientReceive(StreamHandle) /\ UNCHANGED otherVars
    \/ \E f \in StreamFrames :
            Len(stream) < MaxStream * packetSize /\ DeviceWrite(f)
                /\ UNCHANGED <<codecVars, cacheVars, postVars>>
    \/ \E n \in ReadLens : ConnRead(n) /\ UNCHANGED <<codecVars, cacheVars, postVars>>
    \/ MainLoopReceive /\ UNCHANGED otherVars

Next == CodecNext \/ FanNext \/ ReadNext \/ SendNext \/ CacheNext \/ SnapNext \/ PostNext \/ LiveNext \/ ReuseNext \/ ShareNext \/ EffectNext \/ StreamNext

Spec == Init /\ [][Next]_vars
FanSpec == Init /\ [][FanNext]_vars
ReadSpec == Init /\ [][ReadNext]_vars
SendSpec == Init /\ [][SendNext]_vars
CodecSpec == Init /\ [][CodecNext]_vars
CacheSpec == Init /\ [][CacheNext]_vars
SnapSpec == Init /\ [][SnapNext]_vars
PostSpec == Init /\ [][PostNext]_vars
LiveSpec == Init /\ [][LiveNext]_vars /\ LiveFairness
ReuseSpec == Init /\ [][ReuseNext]_vars
ShareSpec == Init /\ [][ShareNext]_vars
EffectSpec == Init /\ [][EffectNext]_vars
StreamSpec == Init /\ [][StreamNext]_vars

(***************************************************************************)
(* The codec's claims, checked under CodecSpec.                            *)
(***************************************************************************)
Encoded == cop = "init" /\ Len(String(cmsg)) <= 13
Payload == String(cmsg)

C2_EncodeBoundary ==
    (cop = "init") =>
        /\ (Len(Payload) <= 13 => ~cerr)
        /\ (Len(Payload) >= 14 => cerr)

C2_Witness ==
    /\ cop = "init"
    /\ Len(Payload) = 14
    /\ cerr
    /\ cprx[endOfPacketTx].chk = "ok"
    /\ Len(String(cprx[endOfPacketTx].msg)) = 13

IntegrityOffsets == {0, 1, 2, 3, 7, 16, 17}

\* C4: a frame that passes check stops passing it when one byte of the
\* magic, of the start marker or the header-size byte is changed.
C4_IntegrityRejection ==
    \A e \in Terminators :
        (cop = "corrupt" /\ cidx \in IntegrityOffsets /\ cprx[e].chk = "ok")
            => crx[e].chk # "ok"

C4_Witness ==
    /\ cop = "corrupt"
    /\ cidx = 7
    /\ ncorrupt = 2
    /\ cprx[endOfPacketRx].chk = "ok"
    /\ crx[endOfPacketRx].chk = "headerSize"

\* The answer check is said to give: the first of the five conditions that
\* fails, the terminator being looked at only when the data size is in range.
FirstFailing(p, e) ==
    LET magicOK == <<p[0], p[1], p[2], p[3]>> = <<73, 83, 67, 80>>
        startOK == <<p[16], p[17]>> = <<33, 49>>
        headerOK == p[7] = 16
        sizeOK == p[11] <= 16
        termOK == sizeOK /\ p[16 + p[11] - 1] = e
    IN  IF ~magicOK THEN "magic"
        ELSE IF ~startOK THEN "start"
        ELSE IF ~headerOK THEN "headerSize"
        ELSE IF ~sizeOK THEN "dataSize"
        ELSE IF ~termOK THEN "endOfPacket"
        ELSE "ok"

\* C5: check accepts a frame exactly when the five conditions hold, and
\* reports the first failing one in the order magic, start marker, header
\* size, data size, terminator.
C5_ValidateAcceptance ==
    \A e \in Terminators : crx[e].chk = FirstFailing(cpkt, e)

\* Two conditions fail at once, and so does one behind an oversize data size.
C5_Witness ==
    /\ ncorrupt = 2
    /\ cpkt[11] > 16
    /\ cpkt[16] # 33
    /\ crx[endOfPacketRx].chk = "start"

FrameOf(m) == init(newEISCPPacket, String(m)).p

\* What a request is said to put on the wire: a whole frame when it was
\* encoded, whatever the write did.
WholeFrames(t) ==
    IF t.outcome = "tooLong" THEN <<>> ELSE Bytes(FrameOf(t.message), packetSize)

\* What a request puts on the wire: a whole frame when the write succeeded,
\* the bytes a failed write put out, nothing when it was too long.
WrittenBytes(t) ==
    IF t.outcome = "ok" THEN Bytes(FrameOf(t.message), packetSize)
    ELSE IF t.outcome = "writeFailed" THEN Bytes(FrameOf(t.message), t.n)
    ELSE <<>>

RECURSIVE ConcatWhole(_)
ConcatWhole(ts) ==
    IF ts = <<>> THEN <<>> ELSE WholeFrames(Head(ts)) \o ConcatWhole(Tail(ts))

RECURSIVE ConcatWritten(_)
ConcatWritten(ts) ==
    IF ts = <<>> THEN <<>> ELSE WrittenBytes(Head(ts)) \o ConcatWritten(Tail(ts))

Broadcast == Len(bcasts') = Len(bcasts) + 1

\* C8 as stated: a broadcast is delivered to every client that is live when
\* it is made.
C8_FanOut_Original ==
    [][Broadcast => \A h \in clients : got'[h] = Append(got[h], Len(bcasts'))]_vars

\* C8, amended: a broadcast is delivered, once, to every live client that
\* has a Receive waiting, and that client stays live; every other live
\* client gets nothing and is removed and closed in that broadcast; no
\* client that is not live gets it, and no other step delivers anything.
C8_FanOut ==
    [][IF Broadcast
       THEN \A h \in Handles :
               IF h \in clients /\ receiving[h]
               THEN /\ got'[h] = Append(got[h], Len(bcasts'))
                    /\ h \in clients'
                    /\ ~chanClosed'[h]
               ELSE IF h \in clients
               THEN /\ got'[h] = got[h]
                    /\ queue'[h] = queue[h]
                    /\ h \notin clients'
                    /\ chanClosed'[h]
               ELSE /\ got'[h] = got[h]
                    /\ queue'[h] = queue[h]
       ELSE got' = got]_vars

\* Three live clients, each with a Receive waiting, all get the broadcast.
C8_Witness ==
    /\ Len(bcasts) = 1
    /\ clients = Handles
    /\ \A h \in Handles : got[h] = <<1>>

\* C9: what a client receives was broadcast after mainLoop added the
\* client: every broadcast it has received or has in its buffer has a number
\* above the number of broadcasts made when it was added.
C9_NoReplay ==
    \A h \in Handles :
        /\ \A k \in 1 .. Len(got[h]) : got[h][k] > attachIdx[h]
        /\ \A k \in 1 .. Len(queue[h]) : queue[h][k] > attachIdx[h]

\* A client added after the first broadcast receives the second one only.
C9_Witness ==
    \E h \in Handles :
        /\ attachIdx[h] = 1
        /\ got[h] = <<2>>
        /\ Len(bcasts) = 2

\* C10: a client that has taken nothing from its channel and has no
\* Receive waiting, once more broadcasts were made since it was added than
\* its channel holds, is out of d.clients, its channel is closed, and a
\* Receive on it returns "channel closed", in every later state.
C10_BackpressureEviction ==
    \A h \in Handles :
        (/\ made[h]
         /\ attachIdx[h] >= 0
         /\ got[h] = <<>>
         /\ ~receiving[h]
         /\ Len(bcasts) > attachIdx[h] + clientQueueCap)
            => /\ h \notin clients
               /\ chanClosed[h]
               /\ chanReceive(h) = "closed"

\* The client that never calls Close was removed by a broadcast, a Receive
\* on it has returned "channel closed", and another client got the message.
C10_Witness ==
    /\ 3 \in unable
    /\ recvClosed[3]
    /\ got[3] = <<>>
    /\ \E g \in Handles : g \in clients /\ got[g] # <<>>

\* The clients a broadcast step removes because they were unable to receive.
EvictedNow == unable' \ unable

\* C11 as stated: when a broadcast removes a client, every other live client
\* stays live and receives the message.
C11_EvictionIsolation_Original ==
    [][Broadcast =>
          \A e \in EvictedNow : \A g \in clients \ {e} :
              g \in clients' /\ got'[g] = Append(got[g], Len(bcasts'))]_vars

\* C11, amended: when a broadcast removes a client, every other live client
\* that has a Receive waiting stays live, is not closed and receives the
\* message; and what the broadcast does to any other client (live or not
\* afterwards, closed or not, given the message or not) is what the same
\* broadcast does to it with the removed client absent from d.clients.
C11_EvictionIsolation ==
    [][Broadcast =>
          \A e \in EvictedNow :
              LET without == clients \ {e}
                  delivered == {h \in without : CanDeliver(h)}
                  r == removeClients(without, chanClosed, without \ delivered)
              IN  \A g \in Handles \ {e} :
                      /\ (g \in clients /\ receiving[g]) =>
                            /\ g \in clients'
                            /\ ~chanClosed'[g]
                            /\ got'[g] = Append(got[g], Len(bcasts'))
                      /\ (g \in clients') = (g \in r.clients)
                      /\ chanClosed'[g] = r.closed[g]
                      /\ (got'[g] # got[g]) = (g \in delivered /\ receiving[g])]_vars

\* The third client was removed by the first broadcast; the first client
\* received that broadcast and the next one and is still live.
C11_Witness ==
    /\ 3 \in unable
    /\ attachIdx[3] = 0
    /\ got[1] = <<1, 2>>
    /\ 1 \in clients
    /\ Len(bcasts) = 2

\* C12 as stated: when the connection has ended and the session has shut
\* down, no client is left live and every client made has its channel
\* closed.
C12_ShutdownClosesHandles ==
    (host = "exited") =>
        /\ clients = {}
        /\ \A h \in Handles : made[h] => chanClosed[h]

(***************************************************************************)
(* The claims about conn.Read's outcomes, checked under ReadSpec.          *)
(***************************************************************************)
\* C13 as stated: after a Read that ended with an error, io.EOF or another,
\* receiveLoop is not back at conn.Read.
C13_ReadErrorsFatal ==
    (rlast \in {"eof", "error"}) => rpc # "read"

\* C14 as stated: the process is never ended by the session.
C14_NoHostTermination == host # "exited"

\* The step in which mainLoop takes a request from d.send.
SendStep == Len(taken') = Len(taken) + 1

\* C15 as stated: a Send on a client whose Close has returned gets an error
\* back and puts nothing on the socket.
C15_SendAfterCloseFails ==
    [][SendStep =>
          LET t == taken'[Len(taken')]
          IN  closeRet[t.client] =>
                  /\ mreply'.err # "ok"
                  /\ wire' = wire]_vars

\* C16: once a client's channel is closed, by Close or by a broadcast that
\* removed it, it stays closed, a Receive on it returns "channel closed" at
\* once, none is left waiting and none yields a message; a Receive that was
\* waiting when the channel was closed has returned "channel closed".
C16_ReceiveAfterClose ==
    [][\A h \in Handles :
          /\ chanClosed[h] =>
                /\ chanClosed'[h]
                /\ got'[h] = got[h]
          /\ chanClosed'[h] =>
                /\ ~receiving'[h]
                /\ queue'[h] = <<>>
                /\ (chanReceive(h))' = "closed"
          /\ (receiving[h] /\ chanClosed'[h]) =>
                /\ recvClosed'[h]
                /\ got'[h] = got[h]]_vars

\* The first client was closed by Close, the third by a broadcast, and a
\* Receive has returned "channel closed" on both.
C16_Witness ==
    /\ closeRet[1]
    /\ 1 \notin unable
    /\ got[1] # <<>>
    /\ recvClosed[1]
    /\ 3 \in unable
    /\ recvClosed[3]

\* C17: a Close on a client that is out of d.clients already, after an
\* earlier Close or after a broadcast removed it, returns, and changes
\* neither d.clients nor any client's channel, buffer or Receive; no step
\* closes a closed channel.
C17_DetachIdempotent ==
    [][/\ host' # ClosePanic
       /\ \A h \in Handles :
             (made[h] /\ h \notin clients /\ ClientClose(h)) =>
                 /\ closeRet'[h]
                 /\ host' = host
                 /\ clients' = clients
                 /\ chanClosed' = chanClosed
                 /\ UNCHANGED <<queue, receiving, got, recvClosed, unable>>]_vars

\* A Close has returned on a client that a broadcast had removed, with
\* another client live and served.
C17_Witness ==
    /\ 1 \in unable
    /\ closeRet[1]
    /\ host = "running"
    /\ 2 \in clients
    /\ got[2] # <<>>

\* What a request's Send is to return, from the message and the bytes the
\* write put out.
ExpectedErr(t) ==
    IF Len(String(t.message)) > maxMessageSize THEN "tooLong"
    ELSE IF t.n < packetSize THEN "writeFailed"
    ELSE "ok"

\* The last request of a sender that mainLoop took.
LastTaken(s) ==
    taken[CHOOSE i \in 1 .. Len(taken) :
              /\ taken[i].req = s
              /\ \A j \in (i + 1) .. Len(taken) : taken[j].req # s]

\* C18: what a Send has returned is the outcome of its own request, on its
\* own client: the write's error when the write failed, no error when it
\* succeeded; a reply under way is for the one sender that waits for it;
\* and after a failed write the process runs on and takes the next request.
C18_WriteErrorToRequester ==
    /\ host = "running"
    /\ \A s \in Senders :
          (spc[s] = "idle" /\ sres[s] # NoReply) =>
              /\ sres[s].req = s
              /\ sres[s].client = LastTaken(s).client
              /\ sres[s].err = ExpectedErr(LastTaken(s))
    /\ (mpc = "reply") =>
          /\ spc[mreply.req] = "err"
          /\ sreq[mreply.req].client = mreply.client
          /\ mreply.err = ExpectedErr(LastTaken(mreply.req))
          /\ \A s \in Senders \ {mreply.req} : spc[s] = "idle"

\* The first sender's write failed and it got the error; the second
\* sender's request, on the same client, was written and got none.
C18_Witness ==
    /\ Len(taken) = 2
    /\ taken[1].req = 1
    /\ taken[2].req = 2
    /\ taken[1].client = taken[2].client
    /\ taken[1].n = headerSize
    /\ sres[1].err = "writeFailed"
    /\ sres[2].err = "ok"
    /\ spc = [s \in Senders |-> "idle"]

\* C19: a request whose message is longer than 13 bytes puts nothing on the
\* socket, leaves txbuf as it was and is answered with the too-long error,
\* which is what its Send returns; the request after it is encoded and
\* written whole.
C19_EncodingErrorThroughSend ==
    [][/\ SendStep =>
             LET t == taken'[Len(taken')]
             IN  /\ Len(String(t.message)) > maxMessageSize =>
                       /\ wire' = wire
                       /\ txbuf' = txbuf
                       /\ mreply' = [client |-> t.client, err |-> "tooLong", req |-> t.req]
                       /\ host' = "running"
                 /\ (/\ taken # <<>>
                     /\ taken[Len(taken)].outcome = "tooLong"
                     /\ ExpectedErr(t) = "ok") =>
                       /\ wire' = wire \o Bytes(FrameOf(t.message), packetSize)
                       /\ mreply'.err = "ok"
       /\ \A s \in Senders :
             (sres'[s] # sres[s] /\ Len(String(sreq[s].message)) > maxMessageSize)
                 => sres'[s].err = "tooLong"]_vars

\* A too-long request was answered with the error, and the next request was
\* written whole.
C19_Witness ==
    /\ Len(taken) = 2
    /\ taken[1].message = TooLong
    /\ sres[taken[1].req].err = "tooLong"
    /\ taken[2].outcome = "ok"
    /\ Len(wire) = packetSize
    /\ mpc = "reply"

\* The step in which receiveLoop has read a frame that fails the five
\* conditions of check.
BadFrameRead ==
    /\ rpc = "read"
    /\ rlast' \in {"bad", "ok"}
    /\ <<rlast', rxbuf'>> # <<rlast, rxbuf>>
    /\ FirstFailing(rxbuf', endOfPacketRx) # "ok"

\* C20: a frame that fails check is not decoded and not broadcast: the
\* cache, d.clients, every client's channel and what it has received stay
\* as they were, the process runs on and receiveLoop is back at conn.Read.
C20_IntegrityFailureNonFatal ==
    [][BadFrameRead =>
          /\ rlast' = "bad"
          /\ rpc' = "read"
          /\ host' = host
          /\ UNCHANGED <<stateM, rmsg, bcasts, nframes>>
          /\ UNCHANGED <<clients, chanClosed, queue, receiving, got, recvClosed, unable>>]_vars

\* A bad frame was read after a broadcast, with the client that received
\* the broadcast still live and waiting in Receive again.
C20_Witness ==
    /\ rlast = "bad"
    /\ rpc = "read"
    /\ host = "running"
    /\ FirstFailing(rxbuf, endOfPacketRx) = "endOfPacket"
    /\ Len(bcasts) = 1
    /\ got[1] = <<1>>
    /\ 1 \in clients
    /\ receiving[1]

(***************************************************************************)
(* The cache's claims, checked under CacheSpec.                            *)
(***************************************************************************)

\* The valid frames receiveLoop has decoded, in order: those broadcast and
\* the one it is forwarding.
Observed == bcasts \o (IF rpc = "forward" THEN <<rmsg>> ELSE <<>>)

Cmds(seq) == {seq[i].Command : i \in 1 .. Len(seq)}

\* The last place of a command in a sequence of messages.
LastIdx(seq, cmd) ==
    CHOOSE i \in 1 .. Len(seq) :
        /\ seq[i].Command = cmd
        /\ \A j \in (i + 1) .. Len(seq) : seq[j].Command # cmd

\* m maps each command of seq to the parameter of its last occurrence, and
\* has no other key.
IsLastWrite(m, seq) ==
    /\ DOMAIN m = Cmds(seq)
    /\ \A cmd \in Cmds(seq) : m[cmd] = seq[LastIdx(seq, cmd)].Parameter

\* C21: the cache maps each command that occurred among the valid frames
\* read so far to the parameter of its most recent occurrence and has no
\* other key; a map State returned is the same for the frames read up to
\* some moment.
C21_CacheLastWriteWins ==
    /\ IsLastWrite(stateM, Observed)
    /\ \A c \in StateCallers :
          snapRef[c] = "own" =>
              \E n \in 0 .. Len(Observed) : IsLastWrite(snapM[c], SubSeq(Observed, 1, n))

\* PWR01 then PWR02 were observed: the cache and a snapshot taken since have
\* PWR = 02 and no MVL, and an earlier snapshot still has PWR = 01.
C21_Witness ==
    /\ bcasts = <<PWR01, PWR02>>
    /\ DOMAIN stateM = {PWR}
    /\ stateM[PWR] = PWR02.Parameter
    /\ snapRef[1] = "own"
    /\ DOMAIN snapM[1] = {PWR}
    /\ snapM[1][PWR] = PWR02.Parameter
    /\ snapRef[2] = "own"
    /\ DOMAIN snapM[2] = {PWR}
    /\ snapM[2][PWR] = PWR01.Parameter

\* A call of State returns in this step.
StateReturns(c) == stpc[c] = "copy" /\ stpc'[c] = "idle"

\* C28: when State returns, the map it returns has an entry for the command
\* of every message a client had obtained from Receive when the call began,
\* and the entry is the parameter of the last frame with that command that
\* has been observed: the message's own, unless a later frame had the same
\* command.
C28_CacheBeforeBroadcast ==
    [][\A c \in StateCallers :
          StateReturns(c) =>
              \A h \in Handles : \A k \in 1 .. Len(got[h]) :
                  got[h][k] <= calledAt[c] =>
                      LET i == got[h][k]
                          m == bcasts[i]
                          snap == (Snapshot(c))'
                      IN  /\ m.Command \in DOMAIN snap
                          /\ LastIdx(Observed, m.Command) >= i
                          /\ snap[m.Command] =
                                Observed[LastIdx(Observed, m.Command)].Parameter
                          /\ (LastIdx(Observed, m.Command) = i) =>
                                snap[m.Command] = m.Parameter]_vars

\* Client 1 obtained PWR01 and then MVL50 from Receive, and a State called
\* after that returned both entries.
C28_Witness ==
    /\ got[1] = <<1, 2>>
    /\ bcasts = <<PWR01, MVL50>>
    /\ snapRef[2] = "own"
    /\ DOMAIN snapM[2] = {PWR, MVL}
    /\ snapM[2][PWR] = PWR01.Parameter
    /\ snapM[2][MVL] = MVL50.Parameter
    /\ stpc[1] = "copy"
    /\ calledAt[1] = 2

(***************************************************************************)
(* The claims about the maps State returns, checked under SnapSpec.        *)
(***************************************************************************)

\* C22: a write into, or a delete from, a map State returned changes that
\* map only: d.state.m changes only when receiveLoop observes a frame, the
\* map another call returned changes only by its own holder's hand, and a
\* State that returns afterwards returns the cache's contents.
C22_SnapshotIndependent ==
    [][/\ stateM' # stateM =>
             /\ rpc = "read"
             /\ rpc' = "forward"
             /\ IsLastWrite(stateM', Observed')
       /\ \A c \in StateCallers :
             (snapRef[c] # "none" /\ snapRef'[c] # "none" /\ (Snapshot(c))' # Snapshot(c)) =>
                 /\ c \in Mutators
                 /\ stateM' = stateM
                 /\ \A d \in StateCallers \ {c} :
                       snapRef'[d] = snapRef[d] /\ snapM'[d] = snapM[d]
       /\ \A c \in StateCallers :
             StateReturns(c) => (Snapshot(c))' = stateM']_vars

\* Caller 1 has overwritten PWR and added MVL in the map it got, while the
\* cache has PWR = 01 and no MVL, and so has the map caller 2 got.
C22_Witness ==
    /\ snapRef[1] = "own"
    /\ DOMAIN snapM[1] = {PWR, MVL}
    /\ snapM[1][PWR] = MutValue
    /\ DOMAIN stateM = {PWR}
    /\ stateM[PWR] = PWR01.Parameter
    /\ snapRef[2] = "own"
    /\ DOMAIN snapM[2] = {PWR}
    /\ snapM[2][PWR] = PWR01.Parameter

\* C23: the map a State returns is what d.state.m held at one moment of the
\* call.
C23_SnapshotAtomic ==
    [][\A c \in StateCallers : StateReturns(c) => (Snapshot(c))' \in seen[c]]_vars

\* Both callers are in State at once over a cache that two frames have
\* filled; one has copied both entries, the other one of them.
C23_Witness ==
    /\ rlock = StateCallers
    /\ DOMAIN stateM = {PWR, MVL}
    /\ DOMAIN snapM[1] = {PWR}
    /\ DOMAIN snapM[2] = {PWR, MVL}
    /\ nframes = 2
    /\ Len(bcasts) = 2

(***************************************************************************)
(* More claims about decoding, checked under CodecSpec.                    *)
(***************************************************************************)

\* C26: on every frame that check accepts with the inbound terminator,
\* message() returns without a fault a Message whose Command has 3 bytes.
C26_DecodeSafe ==
    crx[endOfPacketRx].chk = "ok" =>
        /\ ~crx[endOfPacketRx].panic
        /\ Len(crx[endOfPacketRx].msg.Command) = 3

(***************************************************************************)
(* More claims about the receive side, checked under FanSpec.              *)
(***************************************************************************)

\* mainLoop has put the client in d.clients (it may have removed it since).
Registered(h) == attachIdx[h] # -1

\* C27: what a client has obtained from Receive is the broadcasts from the
\* first after its add on, in order and without a gap; a client that is
\* still in d.clients has missed none, and one that has missed one is
\* removed and its channel closed.
C27_InboundOrderNoGaps ==
    \A h \in Handles :
        /\ got[h] = [k \in 1 .. Len(got[h]) |-> attachIdx[h] + k]
        /\ Len(got[h]) > 0 => (Registered(h) /\ attachIdx[h] + Len(got[h]) <= Len(bcasts))
        /\ h \in clients => Len(bcasts) = attachIdx[h] + Len(got[h]) + Len(queue[h])
        /\ (Registered(h) /\ Len(bcasts) > attachIdx[h] + Len(got[h]) + Len(queue[h])) =>
              (h \notin clients /\ chanClosed[h])

\* Client 1 got the first broadcast, missed the second and was removed;
\* client 2 got both; client 3, added after the first, got the second.
C27_Witness ==
    /\ Len(bcasts) = 2
    /\ got[1] = <<1>>
    /\ 1 \in unable
    /\ chanClosed[1]
    /\ recvClosed[1]
    /\ got[2] = <<1, 2>>
    /\ 2 \in clients
    /\ attachIdx[3] = 1
    /\ got[3] = <<2>>

\* C29: from its add on, a client is in d.clients exactly when its receive
\* channel is open; before, it is neither in d.clients nor closed; no
\* channel is closed twice and nothing is sent on a closed channel.
C29_LiveSetMatchesOpenPaths ==
    /\ host \notin {ClosePanic, SendPanic}
    /\ \A h \in Handles :
          /\ Registered(h) => ((h \in clients) = ~chanClosed[h])
          /\ ~Registered(h) => (h \notin clients /\ ~chanClosed[h])
          /\ chanClosed[h] => queue[h] = <<>>

\* One client is live, one was closed by its consumer and one was evicted,
\* after two broadcasts.
C29_Witness ==
    /\ 1 \in clients
    /\ ~chanClosed[1]
    /\ got[1] = <<1, 2>>
    /\ closeRet[2]
    /\ 2 \notin unable
    /\ chanClosed[2]
    /\ 3 \in unable
    /\ chanClosed[3]

\* C30 as stated: a client NewClient has returned is in d.clients (or was
\* there and has been removed).
C30_AttachRegisters_Original ==
    \A h \in Handles : made[h] => Registered(h)

\* C30: when NewClient has returned a client that is not yet in d.clients,
\* mainLoop is at d.clients[client] = true for it and does that before
\* anything else; so a broadcast is offered to every client NewClient has
\* returned and that was not removed: it is delivered to it or evicts it.
C30_AttachRegisters ==
    [][/\ \A h \in Handles :
             (made'[h] /\ ~Registered(h)') =>
                 /\ mpc' = "add"
                 /\ \A g \in Handles \ {h} : made'[g] => Registered(g)'
       /\ \A h \in Handles :
             (made[h] /\ ~Registered(h) /\ <<mpc, clients, bcasts, taken, chanClosed>>
                                            # <<mpc', clients', bcasts', taken', chanClosed'>>) =>
                 (Registered(h)' /\ h \in clients' /\ bcasts' = bcasts)
       /\ Broadcast =>
             \A h \in Handles :
                 (made[h] /\ ~chanClosed[h]) =>
                     /\ h \in clients
                     /\ \/ got'[h] = Append(got[h], Len(bcasts'))
                        \/ (h \in unable' /\ h \notin clients' /\ chanClosed'[h])]_vars

\* Client 2, made after the first broadcast, got the second; client 3, made
\* after it too and not receiving, was offered it and evicted.
C30_Witness ==
    /\ Len(bcasts) = 2
    /\ attachIdx[2] = 1
    /\ got[2] = <<2>>
    /\ attachIdx[3] = 1
    /\ 3 \in unable
    /\ 1 \in clients

(***************************************************************************)
(* The claim about POST /integra, checked under PostSpec.                  *)
(***************************************************************************)

\* The parts of the request's body, and whether each of them is a message.
PostParts == Split(pbody)
AllMessages(parts) == \A k \in 1 .. Len(parts) : ~NewMessage(parts[k]).err

\* The messages sent so far are the first parts of the body, in order.
SentInOrder ==
    /\ Len(taken) <= Len(PostParts)
    /\ \A k \in 1 .. Len(taken) :
          /\ taken[k].message = NewMessage(PostParts[k]).msg
          /\ taken[k].client = PostClient

C25_NoStall ==
    /\ \A s \in Senders : (spc[s] # "idle") ~> (spc[s] = "idle")
    /\ (rpc = "forward") ~> (rpc # "forward")

(***************************************************************************)
(* The claim about the reused transmit buffer, checked under ReuseSpec.    *)
(***************************************************************************)
\* The step in which mainLoop takes a request, and the request it takes.
Takes == Len(taken') = Len(taken) + 1
TakenNow == taken'[Len(taken')]

\* C32: whenever mainLoop has encoded a request's message, whatever it
\* encoded, rejected or failed to write before, d.txbuf is the encoding of
\* that message into a fresh frame, and the 32 bytes a successful write puts
\* on the socket are that frame.
C32_NoResidue ==
    [][Takes =>
          /\ TakenNow.outcome # "tooLong" => txbuf' = FrameOf(TakenNow.message)
          /\ TakenNow.outcome = "ok" =>
                wire' = wire \o Bytes(FrameOf(TakenNow.message), packetSize)]_vars

\* A longer message was written, a message was rejected as too long, and
\* then a shorter message was written whole: the buffer is its fresh frame.
C32_Witness ==
    /\ Len(taken) = 3
    /\ taken[1].message = MVLQSTN /\ taken[1].outcome = "ok"
    /\ taken[2].message = TooLong /\ taken[2].outcome = "tooLong"
    /\ taken[3].message = PWR01 /\ taken[3].outcome = "ok"
    /\ txbuf = FrameOf(PWR01)
    /\ Len(wire) = 2 * packetSize

(***************************************************************************)
(* The claim about a client shared by senders, checked under ShareSpec.    *)
(***************************************************************************)
\* The step in which the Send of sender s returns.
SendReturns(s) == spc[s] # "idle" /\ spc'[s] = "idle"

\* C33: with two goroutines in Send on one client, a Send that returns
\* returns the outcome of the request it submitted itself (no error, the
\* encoder's error or the write's error), and while a reply is under way
\* the only goroutine waiting at <-c.err is the one whose request it is for.
C33_SendResultOwnRequest ==
    [][/\ \A s \in Senders :
              SendReturns(s) =>
                  /\ sres'[s].req = s
                  /\ LastTaken(s).message = sreq[s].message
                  /\ sres'[s].err = ExpectedErr(LastTaken(s))
       /\ (mpc = "reply") => \A s \in Senders : (spc[s] = "err") = (s = mreply.req)]_vars

\* Both senders are in Send on the shared client: the first one's over-long
\* message was rejected and its error is under way, the second one's request
\* waits to be taken.
C33_Witness ==
    /\ mpc = "reply"
    /\ spc = <<"err", "send">>
    /\ sreq[1].client = sreq[2].client
    /\ mreply.req = 1
    /\ mreply.err = "tooLong"
    /\ sreq[2].message = PWR01

(***************************************************************************)
(* The claim about what changes the cache, checked under EffectSpec.       *)
(***************************************************************************)
\* C34: a step that changes d.state.m is a turn of receiveLoop on a frame
\* that check accepts for the receive terminator, and it puts that frame's
\* message into the cache; it is no send (written, failed or rejected), no
\* NewClient, no Close, no broadcast and no removal of a client, and a frame
\* that check rejects, a read error and the end of the connection leave the
\* cache as it was.
C34_OnlyValidFramesChangeCache ==
    [][/\ (stateM' # stateM) =>
              /\ rpc = "read" /\ rpc' = "forward"
              /\ check(rxbuf', endOfPacketRx) = "ok"
              /\ ~message(rxbuf').panic
              /\ stateM' = [c \in DOMAIN stateM \cup {message(rxbuf').Command} |->
                               IF c = message(rxbuf').Command
                               THEN message(rxbuf').Parameter ELSE stateM[c]]
              /\ UNCHANGED <<clients, clientVars, senderVars, mpc, mreply, txbuf, wire,
                             taken, bcasts>>
       /\ (rpc = "read" /\ check(rxbuf', endOfPacketRx) # "ok") => stateM' = stateM]_vars

\* The cache holds the message of the one frame that passed check; since
\* then a frame that check rejects was read, and a request was written,
\* another was rejected as too long, the broadcast removed the client and
\* the client's Close returned.
C34_Witness ==
    /\ stateM = [c \in {PWR} |-> PWR02.Parameter]
    /\ rlast = "bad"
    /\ Len(taken) = 2
    /\ \E i, j \in 1 .. 2 : taken[i].outcome = "ok" /\ taken[j].outcome = "tooLong"
    /\ Len(bcasts) = 1
    /\ 1 \in unable
    /\ closeRet[1]

(***************************************************************************)
(* The claim about the inbound stream, checked under StreamSpec.           *)
(***************************************************************************)
\* C31: a frame that check has accepted is the 32 consecutive bytes of the
\* inbound stream that the last conn.Read began at, and these begin on a
\* frame boundary, also when a conn.Read returns fewer than 32 bytes; no
\* byte of an earlier frame is left in it.
C31_WholeFrames ==
    (rpos > 0 /\ rlast = "ok") =>
        /\ rfrom % packetSize = 0
        /\ rpos - rfrom = packetSize
        /\ Bytes(rxbuf, packetSize) = SubSeq(stream, rfrom + 1, rfrom + packetSize)

=============================================================================
